---- MODULE Spec2Model ----
(***************************************************************************)
(* PortableTab: a paged, file-backed table of Cap'n Proto records.         *)
(* The model follows src/PortableTab/capnp_table.py (CapnpTable) and       *)
(* src/PortableTab/capnp_manager.py (CapnpManager, PageReader): one table  *)
(* directory on disk (descriptor config.json, page files), and one table   *)
(* handle with its in-process state (the lru_cache of get_config and the   *)
(* OrderedDict page_cache of memory-mapped page files).                    *)
(***************************************************************************)
EXTENDS Integers, Sequences, FiniteSets, TLC

\* ------------------------------------------------------------------ bounds

\* Records per page (CapnpManager.PAGE_SIZE is 500000; scaled down).
PAGE_SIZE == 2
\* The largest record count the model lets an append reach.
MaxCount == 3
\* The largest number of update_records calls in one behaviour.
MaxUpdates == 1
\* The largest number of create calls in one behaviour.
MaxCreates == 2
\* Entries kept by get_page_mmap.
CACHE_MAX == 10

MaxBatch == PAGE_SIZE + 1
Positions == 0..MaxCount
\* The table of the cache workload: more full pages than the cache keeps.
ScanPages == CACHE_MAX + 1
ScanCount == ScanPages * PAGE_SIZE
PageIds == 0..ScanPages

\* ------------------------------------------------------------ record codec

LongName == "zzzzzzzz"
NoRecord == [id |-> -1, name |-> ""]

\* A batch of n input records for ordinals from, from+1, ... of the table
\* made by the e-th create: every record of a behaviour is different, and
\* the names alternate between a text and an extension of it.
Batch(e, from, n) ==
    [j \in 1..n |-> [id |-> 100 * (e - 1) + from + j - 1,
                     name |-> IF (from + j) % 2 = 1 THEN "a" ELSE "ab"]]

\* Field patches of update_records (field name -> new value).
Patches == { [name |-> LongName], [id |-> 9] }

\* setattr(record, key, value) for every key of the patch.
ApplyPatch(r, p) ==
    [id   |-> IF "id" \in DOMAIN p THEN p["id"] ELSE r.id,
     name |-> IF "name" \in DOMAIN p THEN p["name"] ELSE r.name]

RECURSIVE SumWords(_)
\* Words of a Text value: its bytes and a NUL, padded to 8-byte words.
TextWords(s) == (Len(s) + 8) \div 8
\* One data word, one pointer word and the text.
RecordWords(r) == 2 + TextWords(r.name)
SumWords(recs) ==
    IF recs = <<>> THEN 0 ELSE RecordWords(Head(recs)) + SumWords(Tail(recs))
\* Size of the message list_obj.write(f) produces: segment table, root
\* pointer, list tag, and the records.
MessageWords(recs) == 3 + SumWords(recs)

\* ------------------------------------------------------------------- state

VARIABLES
    table_dir,      \* the table directory exists
    config,         \* config.json on disk
    pages,          \* page_NNN.bin on disk, by page number
    config_cache,   \* what the lru_cache of get_config holds for the handle
    page_cache,     \* CapnpManager.page_cache, least recently used first
    trie_files,     \* <attr>.trie on disk, by attribute
    trie_indexes,   \* CapnpTable.trie_indexes: the tries the handle has open
    log,            \* history: the records appended since the last create,
                    \* with the patches of the page writes updates made
    nupd,           \* history: number of update_records calls so far
    ncreate,        \* history: number of create calls so far
    iter,           \* the generator of retrieve_records a consumer holds
    schema_file,    \* <tablename>.capnp on disk
    modules,        \* CapnpManager.modules: the module bound to each name
    types,          \* what the lru_caches of get_record_type, get_list_type hold
    shadowed,       \* CapnpTable has a modules attribute of its own
    last            \* history: the last call and whether it returned

disk == <<table_dir, config, pages>>
handle == <<config_cache, page_cache>>
index == <<trie_files, trie_indexes>>
vars == <<table_dir, config, pages, config_cache, page_cache, trie_files,
          trie_indexes, log, nupd, ncreate, iter, schema_file, modules,
          types, shadowed, last>>
schema == <<schema_file, modules, types, shadowed>>

\* The attributes of the record type.
Attrs == {"id", "name"}
\* The names an index is asked for: the attributes, and a name that is not
\* an attribute of the record type.
IndexNames == Attrs \cup {"nosuch"}
\* <attr>.trie: the (key, ordinal) pairs it stores.
NoTrieFile == [st |-> "absent", entries |-> {}]
TrieFile(entries) == [st |-> "ok", entries |-> entries]
\* An entry of trie_indexes: the pairs the open RecordTrie answers with.
NotOpen == [st |-> "none", live |-> FALSE, entries |-> {}]

AbsentFile == [st |-> "absent", recs |-> <<>>]
EmptyFile == [st |-> "empty", recs |-> <<>>]
OkFile(recs) == [st |-> "ok", recs |-> recs]

\* The record_type create is called with; list_type is record_type + "List",
\* module_name the table name and capnp_file the table name + ".capnp".
RecordTypes == {"Rec", "Row"}

\* config.json: the count and the record type it names.
NoConfig == [st |-> "absent", count |-> 0, record_type |-> ""]
EmptyConfig == [st |-> "empty", count |-> 0, record_type |-> ""]
Descriptor(n, rt) == [st |-> "ok", count |-> n, record_type |-> rt]
OkConfig(n) == Descriptor(n, "Rec")

\* The dict the lru_cache of get_config holds.
NotCached == [st |-> "none", count |-> 0, record_type |-> ""]
CachedDict(n, rt) == [st |-> "cached", count |-> n, record_type |-> rt]
Cached(n) == CachedDict(n, "Rec")

PageFile(pgs, k) == IF k \in DOMAIN pgs THEN pgs[k] ELSE AbsentFile

Min(a, b) == IF a < b THEN a ELSE b

\* ------------------------------------------------------ descriptor access

\* get_config on a handle whose lru_cache holds cc: the cached dict if there
\* is one, else config.json.
get_config(cc) ==
    IF cc.st = "cached" THEN [ok |-> TRUE, count |-> cc.count]
    ELSE IF config.st = "ok" THEN [ok |-> TRUE, count |-> config.count]
    ELSE [ok |-> FALSE, count |-> 0]

\* The lru_cache after a call of get_config (a raising call caches nothing).
ConfigCacheAfterGet(cc) ==
    IF cc.st = "none" /\ config.st = "ok"
    THEN CachedDict(config.count, config.record_type) ELSE cc

\* The end of append_records: config = get_config(), config["count"] =
\* cur_pos, set_config(config): the dict of the lru_cache with the new
\* count, which is also what config.json is overwritten with.
CountedDict(cc, n) == CachedDict(n, ConfigCacheAfterGet(cc).record_type)
set_config(d) == Descriptor(d.count, d.record_type)

\* count_records(): config["count"] of get_config().
count_records(cc) == get_config(cc)

_get_page_path(pos) == pos \div PAGE_SIZE

\* --------------------------------------------------------- schema registry

\* The module name of the table (config["module_name"] is the table name),
\* and the names load_schema is called with.
TableName == "tt"
ModuleNames == {"tt", "t"}

\* The schema text create is given: one that starts with its @0x...; id, one
\* without an id, one with an id that does not parse.
SchemaKinds == {"with_id", "no_id", "broken"}
NoSchema == [st |-> "absent", id |-> FALSE, valid |-> FALSE, record_type |-> ""]
SchemaOf(kind, rt) ==
    [st |-> "ok", id |-> kind # "no_id", valid |-> kind # "broken", record_type |-> rt]
SchemaText(kind) == SchemaOf(kind, "Rec")

\* A module of the registry is known by the record type its schema
\* defines; NoModule stands for a name that is absent or bound to None.
NoModule == ""
NoModules == [m \in ModuleNames |-> NoModule]
\* The lru_caches of get_record_type and get_list_type: the module each
\* cached type was taken from.
TypeNames == {"record", "list"}
NoTypes == [ty \in TypeNames |-> NoModule]

\* capnp.load(path): "ok", or what it raises: the file cannot be read, the
\* file declares no id (the diagnostic names one to add), the text does not
\* parse.
capnp_load(f) ==
    IF f.st # "ok" THEN "missing"
    ELSE IF ~f.id THEN "no_id"
    ELSE IF ~f.valid THEN "invalid"
    ELSE "ok"

\* load_schema(path, as_module) on a registry mods: one capnp.load, whose
\* module is stored when it returns: [ok, diag, loads, file, modules].
load_schema(f, mods, name) ==
    LET d == capnp_load(f) IN
    [ok |-> d = "ok", diag |-> d, loads |-> 1, file |-> f,
     modules |-> IF d = "ok" THEN [mods EXCEPT ![name] = f.record_type] ELSE mods]

\* _load_capnp_file(): load_schema when the registry has no module of the
\* table: [ok, diag, loads, file, modules].
_load_capnp_file(f, mods) ==
    IF mods[TableName] # NoModule
    THEN [ok |-> TRUE, diag |-> "ok", loads |-> 0, file |-> f, modules |-> mods]
    ELSE load_schema(f, mods, TableName)

\* get_record_type(), get_list_type() for the types S on a handle that can
\* read its descriptor: the lru_cache answers for a type it holds; for the
\* others the module is loaded when the registry has none under the table
\* name, and the type is getattr(module, config["record_type"]), which
\* raises when the module bound defines no such type:
\* [ok, diag, loads, file, modules, types].
resolve(S) ==
    LET rt == ConfigCacheAfterGet(config_cache).record_type
        l == IF \A ty \in S : types[ty] # NoModule
             THEN [ok |-> TRUE, diag |-> "ok", loads |-> 0, file |-> schema_file,
                   modules |-> modules]
             ELSE _load_capnp_file(schema_file, modules)
        found == l.ok /\ \A ty \in S : types[ty] # NoModule \/ l.modules[TableName] = rt
    IN  [ok |-> found, diag |-> IF l.ok /\ ~found THEN "no_type" ELSE l.diag,
         loads |-> l.loads, file |-> l.file, modules |-> l.modules,
         types |-> IF found
                   THEN [ty \in TypeNames |->
                            IF ty \in S /\ types[ty] = NoModule
                            THEN l.modules[TableName] ELSE types[ty]]
                   ELSE types]

\* The handle resolves the types S in a call: the registry and the
\* lru_caches after it.
UseTypes(S) ==
    \E r \in {resolve(S)} :
        /\ modules' = r.modules
        /\ types' = r.types
        /\ schema_file' = r.file
        /\ shadowed' = shadowed

IsSubstring(a, b) ==
    \E i \in 1..(Len(b) - Len(a) + 1) : SubSeq(b, i, i + Len(a) - 1) = a

\* The argument names of unload_schema: None, a list of names, or a str
\* (unload() passes self.tablename).
NoNames == [kind |-> "none", str |-> "", list |-> {}]
ListNames(L) == [kind |-> "list", str |-> "", list |-> L]
StrNames(x) == [kind |-> "str", str |-> x, list |-> {}]

\* "name in names": membership in a list, a substring test on a str.
contains(names, name) ==
    IF names.kind = "str" THEN IsSubstring(name, names.str) ELSE name \in names.list

\* unload_schema(names) called on the class cls: the modules with
\* names is None or name in names are set to None in cls.modules, and
\* cls.modules is bound to a dict of the others. Called on CapnpTable, the
\* first call works on the dict of CapnpManager and gives CapnpTable a
\* modules attribute of its own; every later call works on that attribute,
\* not on CapnpManager.modules, which the handles read: [modules, shadowed].
unload_schema(cls, mods, shd, names) ==
    [modules |-> IF cls = "CapnpTable" /\ shd THEN mods
                 ELSE [m \in DOMAIN mods |->
                          IF names.kind = "none" \/ contains(names, m)
                          THEN NoModule ELSE mods[m]],
     shadowed |-> shd \/ cls = "CapnpTable"]

\* -------------------------------------------------------------- mmap cache

\* PageReader(page_path): the mapping has the length the file has now.
PageReader(k) ==
    [page |-> k, len |-> MessageWords(pages[k].recs), open |-> TRUE,
     live |-> TRUE, snap |-> <<>>]

NoEntry == [page |-> -1, len |-> 0, open |-> FALSE, live |-> FALSE, snap |-> <<>>]

CacheIndex(c, k) ==
    IF \E i \in 1..Len(c) : c[i].page = k
    THEN CHOOSE i \in 1..Len(c) : c[i].page = k
    ELSE 0

NoPromote(c, i) == c

\* OrderedDict.move_to_end(key): the entry becomes the last one.
move_to_end(c, i) == SubSeq(c, 1, i - 1) \o SubSeq(c, i + 1, Len(c)) \o <<c[i]>>

EvictLate(c) == IF Len(c) > CACHE_MAX + 1 THEN Tail(c) ELSE c

\* if len(self.page_cache) > 10: self.page_cache.popitem(0)
Evict(c) == IF Len(c) > CACHE_MAX THEN Tail(c) ELSE c

\* get_page_mmap(page_path): [ok, cache after the call, the entry read].
get_page_mmap(c, k) ==
    LET i == CacheIndex(c, k) IN
    IF i # 0
    THEN [ok |-> c[i].open, cache |-> move_to_end(c, i), entry |-> c[i]]
    ELSE IF PageFile(pages, k).st # "ok"
    THEN [ok |-> FALSE, cache |-> c, entry |-> NoEntry]
    ELSE [ok |-> TRUE, cache |-> Evict(Append(c, PageReader(k))),
          entry |-> PageReader(k)]

\* The records in the file a mapping is attached to: the page file while it
\* is linked (writes truncate and rewrite the same file), its last content
\* once the directory was removed.
MappedRecords(e) == IF e.live THEN pages[e.page].recs ELSE e.snap

\* from_bytes(buf=mmap): the buffer is as long as the file was when mapped.
Decodable(e) == MessageWords(MappedRecords(e)) <= e.len

\* get_record(pos) on a handle with page cache c and cached descriptor cc:
\* [ok, rec, cache, cfg].
get_record(c, cc, pos) ==
    LET m == get_page_mmap(c, _get_page_path(pos))
        slot == (pos % PAGE_SIZE) + 1
        fail(x) == [ok |-> FALSE, rec |-> NoRecord, cache |-> m.cache, cfg |-> x]
    IN  IF ~m.ok THEN fail(cc)
        ELSE IF ~get_config(cc).ok THEN fail(cc)
        ELSE IF ~Decodable(m.entry) THEN fail(ConfigCacheAfterGet(cc))
        ELSE IF slot > Len(MappedRecords(m.entry)) THEN fail(ConfigCacheAfterGet(cc))
        ELSE [ok |-> TRUE, rec |-> MappedRecords(m.entry)[slot],
              cache |-> m.cache, cfg |-> ConfigCacheAfterGet(cc)]

\* ------------------------------------------------------- private mappings

\* The generator of retrieve_records(limit, offset) between two pulls of its
\* consumer: "new" before the first pull, "open" while suspended at yield,
\* "done" after it ended, "failed" after a pull raised, "closed" once the
\* consumer dropped it. maps are the private mappings it has open, fds the
\* number of files it has open, peak the largest number of mappings it had
\* open at once during the last pull.
NoIter ==
    [st |-> "none", limit |-> 0, offset |-> 0, pos |-> 0, maps |-> {},
     fds |-> 0, peak |-> 0]

leave_open(it) == it

\* mm.close(); f.close()
close(it) == [it EXCEPT !.maps = {}, !.fds = 0]

open_cached(it, c, k) ==
    LET f == PageFile(pages, k) IN
    IF f.st = "absent"
    THEN [ok |-> FALSE, it |-> it, cache |-> get_page_mmap(c, k).cache]
    ELSE IF f.st = "empty"
    THEN [ok |-> FALSE, it |-> [it EXCEPT !.fds = @ + 1],
          cache |-> get_page_mmap(c, k).cache]
    ELSE [ok |-> TRUE,
          it |-> [it EXCEPT !.maps = @ \cup {PageReader(k)}, !.fds = @ + 1,
                            !.peak = Cardinality(it.maps \cup {PageReader(k)})],
          cache |-> get_page_mmap(c, k).cache]

\* f = open(current_path, "rb"); mm = mmap.mmap(f.fileno(), length=0, ...)
\* in a generator it, on a handle with page cache c: [ok, it, cache]. A
\* missing file is not opened, an empty one is opened and not mapped.
open_page(it, c, k) ==
    LET f == PageFile(pages, k) IN
    IF f.st = "absent"
    THEN [ok |-> FALSE, it |-> it, cache |-> c]
    ELSE IF f.st = "empty"
    THEN [ok |-> FALSE, it |-> [it EXCEPT !.fds = @ + 1], cache |-> c]
    ELSE [ok |-> TRUE,
          it |-> [it EXCEPT !.maps = @ \cup {PageReader(k)}, !.fds = @ + 1,
                            !.peak = Cardinality(it.maps \cup {PageReader(k)})],
          cache |-> c]

RECURSIVE OpenAll(_, _)
\* The page cache after a scan opened the pages ks, one after the other.
OpenAll(c, ks) ==
    IF ks = <<>> THEN c
    ELSE OpenAll(open_page(NoIter, c, Head(ks)).cache, Tail(ks))

\* --------------------------------------------------------------- page I/O

\* _write_page(page, records): records[0:PAGE_SIZE] replace the file content.
_write_page(pgs, k, recs) ==
    [pgs EXCEPT ![k] = OkFile(SubSeq(recs, 1, Min(Len(recs), PAGE_SIZE)))]

RECURSIVE WritePages(_, _)
WritePages(pgs, ws) ==
    IF ws = <<>> THEN pgs
    ELSE WritePages(_write_page(pgs, Head(ws).page, Head(ws).recs), Tail(ws))

\* The tail read of append_records: list(retrieve_records(limit=n,
\* offset=k*PAGE_SIZE)), through a private mapping of the page file.
ReadTail(k, n) ==
    LET f == PageFile(pages, k) IN
    IF f.st = "ok" /\ Len(f.recs) >= n
    THEN [ok |-> TRUE, recs |-> SubSeq(f.recs, 1, n)]
    ELSE [ok |-> FALSE, recs |-> <<>>]

RECURSIVE flush_late(_, _, _)
flush_late(buffer, page, recs) ==
    IF recs = <<>>
    THEN IF Len(buffer) > 0 THEN <<[page |-> page, recs |-> buffer]>> ELSE <<>>
    ELSE LET b == Append(buffer, Head(recs)) IN
         IF Len(b) > PAGE_SIZE
         THEN <<[page |-> page, recs |-> b]>> \o flush_late(<<>>, page + 1, Tail(recs))
         ELSE flush_late(b, page, Tail(recs))

RECURSIVE AppendWrites(_, _, _)
\* The loop of append_records: the page writes it makes, in order.
AppendWrites(buffer, page, recs) ==
    IF recs = <<>>
    THEN IF Len(buffer) > 0 THEN <<[page |-> page, recs |-> buffer]>> ELSE <<>>
    ELSE LET b == Append(buffer, Head(recs)) IN
         IF Len(b) = PAGE_SIZE
         THEN <<[page |-> page, recs |-> b]>> \o AppendWrites(<<>>, page + 1, Tail(recs))
         ELSE AppendWrites(b, page, Tail(recs))

\* append_records(records): [ok, writes, count].
append_records(recs) ==
    LET c == count_records(config_cache)
        page == c.count \div PAGE_SIZE
        pos == page * PAGE_SIZE
        tail == IF c.count - pos > 0 THEN ReadTail(page, c.count - pos)
                ELSE [ok |-> TRUE, recs |-> <<>>]
    IN  IF c.ok /\ tail.ok /\ table_dir
        THEN [ok |-> TRUE, writes |-> AppendWrites(tail.recs, page, recs),
              count |-> c.count + Len(recs)]
        ELSE [ok |-> FALSE, writes |-> <<>>, count |-> c.count]

\* The page cache after the tail read of append_records.
TailCache(c) ==
    LET n == count_records(config_cache)
        page == n.count \div PAGE_SIZE
    IN  IF n.ok /\ n.count - page * PAGE_SIZE > 0
        THEN open_page(NoIter, c, page).cache ELSE c

\* The lengths of the record lists handed to _write_page by the writes.
Buffers(writes) == {Len(writes[i].recs) : i \in 1..Len(writes)}

\* The files a call of append_records that returns writes, in the order it
\* writes them: the pages of its loop, then config.json (set_config).
append_trace(r) ==
    [i \in 1..Len(r.writes) |->
        [file |-> "page", page |-> r.writes[i].page, count |-> 0]]
    \o << [file |-> "config", page |-> 0 - 1, count |-> r.count] >>

\* update_records(updates): the pages that hold an ordinal of updates.
AffectedPages(updates) == {_get_page_path(pos) : pos \in DOMAIN updates}

\* The ordinals of a set in ascending and in descending order.
RECURSIVE AscendingFrom(_, _)
AscendingFrom(S, acc) ==
    IF S = {} THEN acc
    ELSE LET m == CHOOSE x \in S : \A y \in S : x <= y
         IN  AscendingFrom(S \ {m}, Append(acc, m))
Ascending(S) == AscendingFrom(S, <<>>)
RECURSIVE DescendingFrom(_, _)
DescendingFrom(S, acc) ==
    IF S = {} THEN acc
    ELSE LET m == CHOOSE x \in S : \A y \in S : y <= x
         IN  DescendingFrom(S \ {m}, Append(acc, m))
Descending(S) == DescendingFrom(S, <<>>)

\* The keys of the dict the caller passes, in the order the caller inserted
\* them: the largest ordinal first.
items(updates) == Descending(DOMAIN updates)

unsorted(keys) == keys

\* dict(sorted(updates.items())): the keys in ascending order.
sorted(keys) == Ascending({keys[i] : i \in 1..Len(keys)})

\* The records of page k with the patches applied.
PatchedPage(updates, k) ==
    [i \in 1..Len(pages[k].recs) |->
        IF (k * PAGE_SIZE + i - 1) \in DOMAIN updates
        THEN ApplyPatch(pages[k].recs[i], updates[k * PAGE_SIZE + i - 1])
        ELSE pages[k].recs[i]]

Step(op, page, pos) == [op |-> op, page |-> page, pos |-> pos]

RECURSIVE UpdateLoop(_, _, _)
\* The loop of update_records over the keys still to come, with the page it
\* holds in memory (-1 for None) and the steps made so far: a page is read
\* when the loop comes to it, the page held before is written first, and
\* the last page is written after the loop: [ok, trace].
UpdateLoop(keys, current_page, trace) ==
    IF keys = <<>>
    THEN [ok |-> TRUE,
          trace |-> IF current_page = 0 - 1 THEN trace
                    ELSE Append(trace, Step("write", current_page, 0 - 1))]
    ELSE LET pos == Head(keys)
             page == _get_page_path(pos)
             flushed == IF page # current_page /\ current_page # 0 - 1
                        THEN Append(trace, Step("write", current_page, 0 - 1))
                        ELSE trace
             opened == IF page # current_page /\ PageFile(pages, page).st # "absent"
                       THEN Append(flushed, Step("read", page, 0 - 1))
                       ELSE flushed
         IN  IF page # current_page
                /\ (PageFile(pages, page).st # "ok" \/ ~get_config(config_cache).ok)
             THEN [ok |-> FALSE, trace |-> opened]
             ELSE IF (pos % PAGE_SIZE) + 1 > Len(pages[page].recs)
             THEN [ok |-> FALSE, trace |-> opened]
             ELSE UpdateLoop(Tail(keys), page, Append(opened, Step("patch", page, pos)))

\* update_records(updates): [ok, written, trace]; the pages before the first
\* one that fails are written.
update_records(updates) ==
    LET l == UpdateLoop(sorted(items(updates)), 0 - 1, <<>>)
    IN  [ok |-> l.ok,
         written |-> {l.trace[i].page :
                         i \in {j \in 1..Len(l.trace) : l.trace[j].op = "write"}},
         trace |-> l.trace]

\* -------------------------------------------------------------- operations

\* create(): rmtree, mkdir, schema file, config.json with count 0.
\* Mappings of the removed files stay attached to their last content.
Orphan(e) ==
    IF e.live THEN [e EXCEPT !.live = FALSE, !.snap = pages[e.page].recs] ELSE e

KeptTree == pages

\* shutil.rmtree(table_dir): no page file is left.
RemovedTree == [k \in PageIds |-> AbsentFile]

\* An open trie whose file was removed stays mapped on the removed file.
Unlinked(t) == IF t.st = "open" THEN [t EXCEPT !.live = FALSE] ELSE t

\* The private mappings of a generator stay attached to the removed files.
OrphanIter(it) == [it EXCEPT !.maps = {Orphan(e) : e \in it.maps}]

\* create(capnp_schema, record_type) with a schema text of the given kind:
\* the files are written, then load_schema(copied, tablename) is called.
CreateWith(kind, rt) ==
    LET l == load_schema(SchemaOf(kind, rt), modules, TableName) IN
    /\ ncreate < MaxCreates
    /\ ncreate' = ncreate + 1
    /\ table_dir' = TRUE
    /\ config' = Descriptor(0, rt)
    /\ pages' = RemovedTree
    /\ page_cache' = [i \in 1..Len(page_cache) |-> Orphan(page_cache[i])]
    /\ log' = <<>>
    /\ trie_files' = [a \in IndexNames |-> NoTrieFile]
    /\ schema_file' = l.file
    /\ modules' = l.modules
    /\ last' = [op |-> "create", n |-> 0, ok |-> l.ok, diag |-> l.diag,
                loads |-> l.loads, kind |-> kind, record_type |-> rt]
    /\ trie_indexes' = [a \in IndexNames |-> Unlinked(trie_indexes[a])]
    /\ iter' = OrphanIter(iter)
    /\ UNCHANGED <<config_cache, nupd, types, shadowed>>

\* create with the record type "Rec".
CreateTable(kind) == CreateWith(kind, "Rec")

\* create with a schema text that starts with its id.
Create == CreateTable("with_id")

CountRecords ==
    /\ config_cache' = ConfigCacheAfterGet(config_cache)
    /\ last' = [op |-> "count", n |-> 0, ok |-> count_records(config_cache).ok]
    /\ UNCHANGED <<disk, page_cache, index, log, nupd, ncreate, iter, schema>>

\* The types a run of get_record over the ordinals ps resolves: the list
\* type, when the first one maps its page and reads the descriptor.
GetTypes(c, cc, ps) ==
    IF /\ ps # <<>>
       /\ get_page_mmap(c, _get_page_path(Head(ps))).ok
       /\ get_config(cc).ok
    THEN {"list"} ELSE {}

GetRecord(pos) ==
    \E r \in {get_record(page_cache, config_cache, pos)} :
    /\ page_cache' = r.cache
    /\ config_cache' = r.cfg
    /\ last' = [op |-> "get", n |-> 0, ok |-> r.ok, pos |-> pos]
    /\ UseTypes(GetTypes(page_cache, config_cache, <<pos>>))
    /\ UNCHANGED <<disk, index, log, nupd, ncreate, iter>>

\* The types append_records resolves: the record type once the count is
\* read, the list type when it reads the tail page or writes a page.
AppendTypes(writes) ==
    LET c == count_records(config_cache)
        page == c.count \div PAGE_SIZE
    IN  IF ~c.ok THEN {}
        ELSE IF \/ writes
                \/ /\ c.count - page * PAGE_SIZE > 0
                   /\ PageFile(pages, page).st = "ok"
        THEN {"record", "list"} ELSE {"record"}

AppendUpTo(n, limit) ==
    \E recs \in {Batch(ncreate, Len(log), n)} :
    \E r \in {append_records(recs)} :
    \E t \in {resolve(AppendTypes(r.writes # <<>>))} :
    \E ok \in {r.ok /\ t.ok} :
        /\ r.count <= limit
        /\ pages' = IF ok THEN WritePages(pages, r.writes) ELSE pages
        /\ config' = IF ok THEN set_config(CountedDict(config_cache, r.count))
                     ELSE config
        /\ config_cache' = IF ok THEN CountedDict(config_cache, r.count)
                           ELSE ConfigCacheAfterGet(config_cache)
        /\ log' = IF ok THEN log \o recs ELSE log
        /\ last' = [op |-> "append", n |-> n, ok |-> ok,
                    err |-> IF ok THEN "" ELSE IF r.ok THEN "type" ELSE "read",
                    trace |-> IF ok THEN append_trace(r) ELSE <<>>,
                    buffers |-> IF ok THEN Buffers(r.writes) ELSE {}]
        /\ page_cache' = IF t.ok THEN TailCache(page_cache) ELSE page_cache
        /\ UseTypes(AppendTypes(r.writes # <<>>))
        /\ UNCHANGED <<table_dir, index, nupd, ncreate, iter>>

AppendRecords(n) == AppendUpTo(n, MaxCount)

\* The process dies inside append_records(records): j of its file writes
\* (the page writes, then config.json) are complete, and when torn the next
\* one had opened its file for writing, which truncates it. The handle is
\* gone with the process; the next one starts with empty caches.
CrashInAppend(n, j, torn) ==
    LET recs == Batch(ncreate, Len(log), n)
        r == append_records(recs)
        nw == Len(r.writes)
        done == WritePages(pages, SubSeq(r.writes, 1, Min(j, nw)))
    IN  /\ r.ok
        /\ r.count <= MaxCount
        /\ j <= nw + 1
        /\ torn => j <= nw
        /\ pages' = IF torn /\ j < nw
                    THEN [done EXCEPT ![r.writes[j + 1].page] = EmptyFile]
                    ELSE done
        /\ config' = IF j = nw + 1 THEN set_config(CountedDict(config_cache, r.count))
                     ELSE IF torn /\ j = nw THEN EmptyConfig
                     ELSE config
        /\ config_cache' = NotCached
        /\ page_cache' = <<>>
        /\ trie_indexes' = [a \in IndexNames |-> NotOpen]
        /\ log' = IF j = nw + 1 THEN log \o recs ELSE log
        /\ last' = [op |-> "crash", n |-> n, ok |-> FALSE]
        /\ iter' = NoIter
        /\ modules' = NoModules
        /\ types' = NoTypes
        /\ shadowed' = FALSE
        /\ UNCHANGED <<table_dir, trie_files, nupd, ncreate, schema_file>>

\* A page write of append_records(records) fails (the disk is full, the
\* file cannot be opened): j page writes are complete, the next one raises,
\* when torn after open(page_path, "wb") had truncated the file. The error
\* reaches the caller: set_config is not called, the handle lives on.
FailedAppend(n, j, torn) ==
    LET recs == Batch(ncreate, Len(log), n)
        r == append_records(recs)
        nw == Len(r.writes)
        done == WritePages(pages, SubSeq(r.writes, 1, j))
    IN  /\ r.ok
        /\ r.count <= MaxCount
        /\ j < nw
        /\ pages' = IF torn THEN [done EXCEPT ![r.writes[j + 1].page] = EmptyFile]
                    ELSE done
        /\ config_cache' = ConfigCacheAfterGet(config_cache)
        /\ last' = [op |-> "append", n |-> n, ok |-> FALSE, err |-> "write",
                    trace |-> SubSeq(append_trace(r), 1, j)]
        /\ page_cache' = TailCache(page_cache)
        /\ UseTypes(AppendTypes(TRUE))
        /\ UNCHANGED <<table_dir, config, index, log, nupd, ncreate, iter>>

\* The expected table content after an update that wrote the given pages.
PatchedLog(updates, written) ==
    [i \in 1..Len(log) |->
        IF (i - 1) \in DOMAIN updates /\ _get_page_path(i - 1) \in written
        THEN ApplyPatch(log[i], updates[i - 1])
        ELSE log[i]]

UpdateRecords(updates) ==
    \E r \in {update_records(updates)} :
    /\ nupd < MaxUpdates
    /\ nupd' = nupd + 1
    /\ pages' = [k \in PageIds |->
                    IF k \in r.written THEN OkFile(PatchedPage(updates, k))
                    ELSE pages[k]]
    /\ config_cache' = IF \E k \in AffectedPages(updates) :
                              /\ \A j \in AffectedPages(updates) : k <= j
                              /\ PageFile(pages, k).st = "ok"
                       THEN ConfigCacheAfterGet(config_cache) ELSE config_cache
    /\ log' = PatchedLog(updates, r.written)
    /\ last' = [op |-> "update", n |-> 0, ok |-> r.ok, written |-> r.written,
                affected |-> AffectedPages(updates), patched |-> DOMAIN updates,
                trace |-> r.trace,
                buffers |-> {Len(PatchedPage(updates, k)) : k \in r.written}]
    /\ UseTypes(IF \E k \in AffectedPages(updates) :
                       /\ \A j \in AffectedPages(updates) : k <= j
                       /\ PageFile(pages, k).st # "absent"
                       /\ get_config(config_cache).ok
                THEN {"list"} ELSE {})
    /\ UNCHANGED <<table_dir, config, page_cache, index, ncreate, iter>>

\* unload(): every cache entry is set to None (the keys stay), then
\* unload_schema(self.tablename).
Unload ==
    /\ page_cache' = [i \in 1..Len(page_cache) |->
                         [NoEntry EXCEPT !.page = page_cache[i].page]]
    /\ last' = [op |-> "unload", n |-> 0, ok |-> TRUE, named |-> {TableName}]
    /\ \E u \in {unload_schema("CapnpTable", modules, shadowed, StrNames(TableName))} :
          /\ modules' = u.modules
          /\ shadowed' = u.shadowed
    /\ UNCHANGED <<disk, config_cache, index, log, nupd, ncreate, iter,
                   schema_file, types>>

\* ------------------------------------------------------------------ delete

deleteUnguarded(dir) == [ok |-> dir, removed |-> dir]

\* delete(): shutil.rmtree(table_dir) when the directory exists, nothing
\* otherwise: [ok, removed].
delete(dir) == [ok |-> TRUE, removed |-> dir]

Delete ==
    \E r \in {delete(table_dir)} :
    /\ table_dir' = IF r.removed THEN FALSE ELSE table_dir
    /\ config' = IF r.removed THEN NoConfig ELSE config
    /\ pages' = IF r.removed THEN RemovedTree ELSE pages
    /\ trie_files' = IF r.removed THEN [a \in IndexNames |-> NoTrieFile] ELSE trie_files
    /\ page_cache' = IF r.removed
                     THEN [i \in 1..Len(page_cache) |-> Orphan(page_cache[i])]
                     ELSE page_cache
    /\ trie_indexes' = IF r.removed
                       THEN [a \in IndexNames |-> Unlinked(trie_indexes[a])]
                       ELSE trie_indexes
    /\ log' = IF r.removed THEN <<>> ELSE log
    /\ last' = [op |-> "delete", n |-> IF r.removed THEN 1 ELSE 0, ok |-> r.ok]
    /\ iter' = IF r.removed THEN OrphanIter(iter) ELSE iter
    /\ schema_file' = IF r.removed THEN NoSchema ELSE schema_file
    /\ UNCHANGED <<config_cache, nupd, ncreate, modules, types, shadowed>>

\* ---------------------------------------------------------------- iterate

\* limit=None of retrieve_records.
NoLimit == -1

Max(S) == CHOOSE x \in S : \A y \in S : y <= x

\* One turn of the loop of retrieve_records: the record at pos, decoded from
\* a private mapping of its page file (the file as it is now).
ReadAt(cc, pos) ==
    LET f == PageFile(pages, _get_page_path(pos))
        slot == (pos % PAGE_SIZE) + 1
    IN  IF f.st = "ok" /\ get_config(cc).ok /\ slot <= Len(f.recs)
        THEN [ok |-> TRUE, rec |-> f.recs[slot]]
        ELSE [ok |-> FALSE, rec |-> NoRecord]

\* list(retrieve_records(limit, offset)): [ok, recs, cfg]; recs are the
\* records yielded before the end or before the first read that raises.
retrieve_records(cc, limit, offset) ==
    LET c == count_records(cc)
        lim == IF limit = NoLimit THEN c.count ELSE limit
        k == Max({n \in 0..lim : \A j \in 0..(n - 1) : ReadAt(cc, offset + j).ok})
    IN  IF limit = NoLimit /\ ~c.ok
        THEN [ok |-> FALSE, recs |-> <<>>, cfg |-> cc]
        ELSE [ok |-> k = lim,
              recs |-> [j \in 1..k |-> ReadAt(cc, offset + j - 1).rec],
              cfg |-> IF \/ limit = NoLimit
                         \/ lim > 0 /\ PageFile(pages, _get_page_path(offset)).st = "ok"
                      THEN ConfigCacheAfterGet(cc) ELSE cc]

\* The page files list(retrieve_records(limit, offset)) maps, in order: the
\* ones of the records it yields and of the read that raises, if one does.
Opened(cc, limit, offset) ==
    LET r == retrieve_records(cc, limit, offset)
        c == count_records(cc)
        lim == IF limit = NoLimit THEN c.count ELSE limit
        tried == {offset + j : j \in 0..(Min(Len(r.recs) + 1, lim) - 1)}
    IN  IF limit = NoLimit /\ ~c.ok THEN <<>>
        ELSE Ascending({_get_page_path(pos) : pos \in
                 {q \in tried : PageFile(pages, _get_page_path(q)).st = "ok"}})

Iterate(limit, offset) ==
    \E r \in {retrieve_records(config_cache, limit, offset)} :
    /\ config_cache' = r.cfg
    /\ page_cache' = OpenAll(page_cache, Opened(config_cache, limit, offset))
    /\ last' = [op |-> "iterate", n |-> Len(r.recs), ok |-> r.ok]
    /\ UseTypes(IF /\ Opened(config_cache, limit, offset) # <<>>
                   /\ get_config(config_cache).ok
                THEN {"list"} ELSE {})
    /\ UNCHANGED <<disk, index, log, nupd, ncreate, iter>>

\* ---------------------------------------------------------- pulled iterator

\* it = retrieve_records(limit, offset): no statement of the generator runs
\* before the first pull.
IterStart(limit, offset) ==
    /\ iter.st \in {"none", "closed"}
    /\ iter' = [NoIter EXCEPT !.st = "new", !.limit = limit, !.offset = offset]
    /\ last' = [op |-> "iter", n |-> 0, ok |-> TRUE]
    /\ UNCHANGED <<disk, handle, index, log, nupd, ncreate, schema>>

\* record = list_obj.records[pos % PAGE_SIZE] through the mapping the
\* generator holds of the page of pos: [ok, rec].
YieldAt(it) ==
    LET k == _get_page_path(it.pos)
        slot == (it.pos % PAGE_SIZE) + 1
    IN  IF \E m \in it.maps : m.page = k
        THEN LET e == CHOOSE m \in it.maps : m.page = k IN
             IF Decodable(e) /\ slot <= Len(MappedRecords(e))
             THEN [ok |-> TRUE, rec |-> MappedRecords(e)[slot]]
             ELSE [ok |-> FALSE, rec |-> NoRecord]
        ELSE [ok |-> FALSE, rec |-> NoRecord]

Pulled(it, c, cc, out) == [it |-> it, cache |-> c, cfg |-> cc, out |-> out]

\* next(it) on the generator it, on a handle with page cache c and cached
\* descriptor cc: it runs from where it is suspended to the next yield, to
\* its end, or to the statement that raises: [it, cache, cfg, out].
resume(it, c, cc) ==
    LET n == count_records(cc)
        first == it.st = "new"
        at == IF first
              THEN [it EXCEPT !.limit = IF it.limit = NoLimit THEN n.count ELSE @,
                              !.pos = it.offset, !.peak = 0]
              ELSE [it EXCEPT !.pos = @ + 1, !.peak = Cardinality(it.maps)]
        cc1 == IF first /\ it.limit = NoLimit THEN ConfigCacheAfterGet(cc) ELSE cc
        k == _get_page_path(at.pos)
        same == ~first /\ _get_page_path(it.pos) = k
        left == IF first THEN at ELSE close(at)
        o == open_page(left, c, k)
        failed(x) == [x EXCEPT !.st = "failed"]
    IN  IF first /\ it.limit = NoLimit /\ ~n.ok
        THEN Pulled(failed(at), c, cc, "error")
        ELSE IF at.pos >= at.offset + at.limit
        THEN Pulled([left EXCEPT !.st = "done"], c, cc1, "stop")
        ELSE IF same
        THEN IF YieldAt(at).ok
             THEN Pulled([at EXCEPT !.st = "open"], c, cc1, "record")
             ELSE Pulled(failed(at), c, cc1, "error")
        ELSE IF ~o.ok \/ ~get_config(cc1).ok
        THEN Pulled(failed(o.it), o.cache, cc1, "error")
        ELSE IF YieldAt(o.it).ok
        THEN Pulled([o.it EXCEPT !.st = "open"], o.cache,
                    ConfigCacheAfterGet(cc1), "record")
        ELSE Pulled(failed(o.it), o.cache, ConfigCacheAfterGet(cc1), "error")

IterNext ==
    \E r \in {resume(iter, page_cache, config_cache)} :
    /\ iter.st \in {"new", "open"}
    /\ iter' = r.it
    /\ page_cache' = r.cache
    /\ config_cache' = r.cfg
    /\ last' = [op |-> "next", n |-> r.it.pos, ok |-> r.out # "error",
                out |-> r.out]
    /\ UseTypes(IF /\ r.it.maps # {}
                   /\ r.it.maps # iter.maps
                   /\ get_config(r.cfg).ok
                THEN {"list"} ELSE {})
    /\ UNCHANGED <<disk, index, log, nupd, ncreate>>

\* The generator is dropped: its frame is cleared, and the file and the
\* mmap object it held are closed when they are deallocated.
finalize(it) == [NoIter EXCEPT !.st = "closed"]

\* The consumer stops pulling and drops the iterator.
IterDrop ==
    /\ iter.st \in {"new", "open", "done", "failed"}
    /\ iter' = finalize(iter)
    /\ last' = [op |-> "drop", n |-> 0, ok |-> TRUE]
    /\ UNCHANGED <<disk, handle, index, log, nupd, ncreate, schema>>

\* ------------------------------------------------------------ trie indexes

\* str(getattr(record, attr))
Key(r, a) == IF a = "id" THEN ToString(r.id) ELSE r.name

\* key_func of create_trie_on: omitted (str is used), a function that gives
\* the first character of the text as one string, one that gives the list
\* of the prefixes of the text (the empty one included), one that gives the
\* text twice.
KeyFuncs == {"str", "first", "prefixes", "twice"}

\* What kvgen takes from the attribute value s: str(s) without key_func,
\* key_func(s) with it; a single string or a list of strings:
\* [str, list].
key_func(kf, s) ==
    IF kf = "str" THEN [str |-> TRUE, list |-> <<s>>]
    ELSE IF kf = "first" THEN [str |-> TRUE, list |-> <<SubSeq(s, 1, Min(1, Len(s)))>>]
    ELSE IF kf = "prefixes"
    THEN [str |-> FALSE, list |-> [j \in 1..Len(s) + 1 |-> SubSeq(s, 1, j - 1)]]
    ELSE [str |-> FALSE, list |-> <<s, s>>]

\* filter_func of create_trie_on: omitted, or a function that is true of
\* the records with a name of one character.
FilterFuncs == {"none", "short"}
filter_func(ff, r) == ff = "none" \/ Len(r.name) = 1

\* What kvgen yields for a record that passed the filter, as (key, copy)
\* pairs: a single string that is not empty, else every string in strings
\* that is not empty (for the empty str there is none); a string that comes
\* more than once is yielded as often.
Yields(r, a, kf) ==
    LET v == key_func(kf, Key(r, a))
        strings == IF v.str /\ v.list[1] # "" THEN v.list
                   ELSE IF v.str THEN <<>>
                   ELSE v.list
    IN  {<<strings[j], Cardinality({i \in 1..j : strings[i] = strings[j]})>> :
            j \in {i \in 1..Len(strings) : strings[i] # ""}}

IsPrefix(p, s) == Len(p) <= Len(s) /\ SubSeq(s, 1, Len(p)) = p

Modes == {"get", "prefixes", "keys"}

\* trie.get(value, []), trie.prefixes(value), trie.keys(value) of
\* marisa_trie.RecordTrie, on the (key, ordinal, copy) entries of the trie:
\* an entry kvgen yielded twice is kept twice.
trie_get(entries, v) == {x \in entries : x[1] = v}
trie_prefixes(entries, v) == {e[1] : e \in {x \in entries : IsPrefix(x[1], v)}}
trie_keys(entries, v) == {e[1] : e \in {x \in entries : IsPrefix(v, x[1])}}

\* The keys search_records_on looks up for a mode.
KeysFor(entries, v, mode) ==
    IF mode = "get" THEN {v}
    ELSE IF mode = "prefixes" THEN trie_prefixes(entries, v)
    ELSE trie_keys(entries, v)

\* The entries a search finds: those of the keys it looks up.
Found(entries, v, mode) ==
    UNION {trie_get(entries, k) : k \in KeysFor(entries, v, mode)}

RECURSIVE Listed(_, _)
\* The list positions of search_records_on: the ordinal of every entry
\* found, key after key (the shorter first); acc holds the list so far.
Listed(found, acc) ==
    IF found = {} THEN acc
    ELSE LET e == CHOOSE x \in found : \A y \in found :
                     \/ Len(x[1]) < Len(y[1])
                     \/ Len(x[1]) = Len(y[1]) /\ x[2] < y[2]
                     \/ Len(x[1]) = Len(y[1]) /\ x[2] = y[2] /\ x[3] <= y[3]
         IN  Listed(found \ {e}, Append(acc, e[2]))

positions(entries, v, mode) == Listed(Found(entries, v, mode), <<>>)

keep_all(ps) == ps

\* set([p[0] for p in positions]), in the order the loop takes it in.
pos_tuples(ps) == Ascending({ps[i] : i \in 1..Len(ps)})

\* open_trie_on(attr): the trie the handle has open if there is one, else
\* the file, NoIndexError when there is none: [ok, tries, entries].
open_trie_on(tc, a) ==
    IF tc[a].st = "open"
    THEN [ok |-> TRUE, tries |-> tc, entries |-> tc[a].entries]
    ELSE IF trie_files[a].st # "ok"
    THEN [ok |-> FALSE, tries |-> tc, entries |-> {}]
    ELSE [ok |-> TRUE,
          tries |-> [tc EXCEPT ![a] = [st |-> "open", live |-> TRUE,
                                       entries |-> trie_files[a].entries]],
          entries |-> trie_files[a].entries]

RECURSIVE GetAll(_, _, _, _)
\* get_record for every ordinal of a list, in its order, until one raises:
\* [ok, recs, cache, cfg]; acc holds the records read so far.
GetAll(c, cc, ps, acc) ==
    IF ps = <<>> THEN [ok |-> TRUE, recs |-> acc, cache |-> c, cfg |-> cc]
    ELSE LET r == get_record(c, cc, Head(ps))
         IN  IF ~r.ok
             THEN [ok |-> FALSE, recs |-> acc, cache |-> r.cache, cfg |-> r.cfg]
             ELSE GetAll(r.cache, r.cfg, Tail(ps), Append(acc, r.rec))

\* What search_records_on gives when it raises err.
SearchRaises(err, tc, c, cc) ==
    [ok |-> FALSE, err |-> err, recs |-> <<>>, found |-> 0,
     tries |-> tc, cache |-> c, cfg |-> cc]

\* The end of search_records_on: the positions found in the open trie, made
\* a set, and get_record for each.
SearchIn(o, c, cc, v, mode) ==
    LET ps == positions(o.entries, v, mode)
        g == GetAll(c, cc, pos_tuples(ps), <<>>)
    IN  [ok |-> g.ok, err |-> IF g.ok THEN "" ELSE "get_record",
         recs |-> IF g.ok THEN g.recs ELSE <<>>, found |-> Len(ps),
         tries |-> o.tries, cache |-> g.cache, cfg |-> g.cfg]

SearchLateCheck(tc, c, cc, a, v, mode) ==
    LET o == open_trie_on(tc, a) IN
    IF ~o.ok THEN SearchRaises("NoIndexError", tc, c, cc)
    ELSE IF mode \notin Modes THEN SearchRaises("ValueError", o.tries, c, cc)
    ELSE SearchIn(o, c, cc, v, mode)

\* search_records_on(attr, value, funcname):
\* [ok, err, recs, found, tries, cache, cfg].
search_records_on(tc, c, cc, a, v, mode) ==
    IF mode \notin Modes THEN SearchRaises("ValueError", tc, c, cc)
    ELSE LET o == open_trie_on(tc, a) IN
         IF ~o.ok THEN SearchRaises("NoIndexError", tc, c, cc)
         ELSE SearchIn(o, c, cc, v, mode)

\* What a RecordTrie answers with once its file was rewritten under its
\* mapping (trie.save writes the path in place): the object keeps the layout
\* it read from the old file and reads the bytes of the new one, so its
\* answers are not defined; it may answer as the old file did, as the new
\* one does, or find nothing. A file rewritten with the same pairs has the
\* same bytes.
Rewritten(old, new) == IF old = new THEN {old} ELSE {old, new, {}}

\* create_trie_on(attr, key_func, filter_func):
\* [ok, err, entries, cache, cfg, tries]; tries is the set of the states
\* trie_indexes can be left in. kvgen reads the records in order and raises
\* ValueError at the first one when it has no attribute attr; the trie is
\* saved and opened when kvgen came to its end.
create_trie_on(tc, c, cc, a, kf, ff) ==
    LET n == count_records(cc)
        known == a \in Attrs
        upto == IF known THEN n.count ELSE Min(n.count, 1)
        g == GetAll(c, ConfigCacheAfterGet(cc), [i \in 1..upto |-> i - 1], <<>>)
        entries == IF known
                   THEN UNION {{<<y[1], i - 1, y[2]>> : y \in Yields(g.recs[i], a, kf)} :
                                 i \in {j \in 1..Len(g.recs) : filter_func(ff, g.recs[j])}}
                   ELSE {}
        fail(err, x) == [ok |-> FALSE, err |-> err, entries |-> {},
                         cache |-> x.cache, cfg |-> x.cfg, tries |-> {tc}]
    IN  IF ~n.ok THEN fail("count", [cache |-> c, cfg |-> cc])
        ELSE IF ~g.ok THEN fail("get_record", g)
        ELSE IF ~known /\ n.count > 0 THEN fail("ValueError", g)
        ELSE IF ~table_dir THEN fail("save", g)
        ELSE [ok |-> TRUE, err |-> "", entries |-> entries,
              cache |-> g.cache, cfg |-> g.cfg,
              tries |->
                 IF tc[a].st # "open"
                 THEN {[tc EXCEPT ![a] = [st |-> "open", live |-> TRUE,
                                          entries |-> entries]]}
                 ELSE IF tc[a].live /\ trie_files[a].st = "ok"
                 THEN {[tc EXCEPT ![a].entries = e] :
                          e \in Rewritten(tc[a].entries, entries)}
                 ELSE {tc}]

CreateTrieWith(a, kf, ff) ==
    \E r \in {create_trie_on(trie_indexes, page_cache, config_cache, a, kf, ff)} :
    /\ trie_files' = IF r.ok THEN [trie_files EXCEPT ![a] = TrieFile(r.entries)]
                     ELSE trie_files
    /\ trie_indexes' \in r.tries
    /\ page_cache' = r.cache
    /\ config_cache' = r.cfg
    /\ last' = [op |-> "create_trie", n |-> 0, ok |-> r.ok, attr |-> a,
                key_func |-> kf, filter_func |-> ff, err |-> r.err]
    /\ UseTypes(LET n == count_records(config_cache)
                    upto == IF a \in Attrs THEN n.count ELSE Min(n.count, 1)
                IN  IF n.ok
                    THEN GetTypes(page_cache, ConfigCacheAfterGet(config_cache),
                                  [i \in 1..upto |-> i - 1])
                    ELSE {})
    /\ UNCHANGED <<disk, log, nupd, ncreate, iter>>

\* create_trie_on(attr), key_func and filter_func omitted.
CreateTrie(a) == CreateTrieWith(a, "str", "none")

\* delete_trie_on(attr): unlink the file if it exists, forget the open trie.
DeleteTrie(a) ==
    /\ trie_files' = [trie_files EXCEPT ![a] = NoTrieFile]
    /\ trie_indexes' = [trie_indexes EXCEPT ![a] = NotOpen]
    /\ last' = [op |-> "delete_trie", n |-> 0, ok |-> TRUE, attr |-> a]
    /\ UNCHANGED <<disk, handle, log, nupd, ncreate, iter, schema>>

Search(a, v, mode) ==
    \E r \in {search_records_on(trie_indexes, page_cache, config_cache, a, v, mode)} :
    /\ trie_indexes' = r.tries
    /\ page_cache' = r.cache
    /\ config_cache' = r.cfg
    /\ last' = [op |-> "search", n |-> Len(r.recs), ok |-> r.ok, attr |-> a,
                mode |-> mode, err |-> r.err, found |-> r.found]
    /\ UseTypes(IF r.ok \/ r.err = "get_record"
                THEN GetTypes(page_cache, config_cache,
                         pos_tuples(positions(open_trie_on(trie_indexes, a).entries,
                                              v, mode)))
                ELSE {})
    /\ UNCHANGED <<disk, trie_files, log, nupd, ncreate, iter>>

\* The inputs of update_records: no ordinal, one ordinal, or ordinal 0 and
\* another one, with one patch for each.
UpdateKeys ==
    {T \in SUBSET Positions :
        Cardinality(T) <= 1 \/ (Cardinality(T) = 2 /\ 0 \in T)}
UpdateInputs == {[pos \in S |-> p] : S \in UpdateKeys, p \in Patches}

Init ==
    /\ table_dir = FALSE
    /\ config = NoConfig
    /\ pages = [k \in PageIds |-> AbsentFile]
    /\ config_cache = NotCached
    /\ page_cache = <<>>
    /\ trie_files = [a \in IndexNames |-> NoTrieFile]
    /\ trie_indexes = [a \in IndexNames |-> NotOpen]
    /\ log = <<>>
    /\ nupd = 0
    /\ ncreate = 0
    /\ iter = NoIter
    /\ schema_file = NoSchema
    /\ modules = NoModules
    /\ types = NoTypes
    /\ shadowed = FALSE
    /\ last = [op |-> "init", n |-> 0, ok |-> TRUE]

Next ==
    \/ Create
    \/ CountRecords
    \/ \E pos \in Positions : GetRecord(pos)
    \/ \E n \in 0..MaxBatch : AppendRecords(n)
    \/ \E u \in UpdateInputs : UpdateRecords(u)

Spec == Init /\ [][Next]_vars

\* Behaviours in which the process may die inside an append, or a page
\* write of an append may fail.
MaxWrites == MaxBatch + 2
NextCrash ==
    \/ Create
    \/ CountRecords
    \/ \E pos \in Positions : GetRecord(pos)
    \/ \E n \in 0..MaxBatch : AppendRecords(n)
    \/ \E n \in 0..MaxBatch, j \in 0..MaxWrites, torn \in BOOLEAN :
          CrashInAppend(n, j, torn)
    \/ \E n \in 0..MaxBatch, j \in 0..MaxWrites, torn \in BOOLEAN :
          FailedAppend(n, j, torn)

SpecCrash == Init /\ [][NextCrash]_vars

\* The cache workload: a table of ScanPages full pages, read page after page
\* with returns to the first page, with appends, updates and unloads between.
InitScan ==
    /\ table_dir = TRUE
    /\ config = OkConfig(ScanCount)
    /\ pages = [k \in PageIds |->
                  IF k < ScanPages THEN OkFile(Batch(1, k * PAGE_SIZE, PAGE_SIZE))
                  ELSE AbsentFile]
    /\ config_cache = NotCached
    /\ page_cache = <<>>
    /\ trie_files = [a \in IndexNames |-> NoTrieFile]
    /\ trie_indexes = [a \in IndexNames |-> NotOpen]
    /\ log = Batch(1, 0, ScanCount)
    /\ nupd = 0
    /\ ncreate = 1
    /\ iter = NoIter
    /\ schema_file = SchemaText("with_id")
    /\ modules = NoModules
    /\ types = NoTypes
    /\ shadowed = FALSE
    /\ last = [op |-> "init", n |-> 0, ok |-> TRUE]

\* The page read last.
MruPage == IF page_cache = <<>> THEN -1 ELSE page_cache[Len(page_cache)].page

ScanPositions == {k * PAGE_SIZE : k \in {0, MruPage + 1} \cap PageIds}

ScanUpdates == {[pos \in {0} |-> [name |-> LongName]]}
\* One update is enough to make a cached mapping stale.
ScanUpdateCalls == 1

NextScan ==
    \/ \E pos \in ScanPositions : GetRecord(pos)
    \/ Unload
    \/ AppendUpTo(1, ScanCount + 1)
    \/ Iterate(1, 0)
    \/ \E u \in ScanUpdates : UpdateRecords(u) /\ nupd < ScanUpdateCalls

SpecScan == InitScan /\ [][NextScan]_vars

\* The cache workload with returns to the first pages at any time: the gets
\* go to page 0, to page 1, or to the page after the highest one cached.
NextPage ==
    IF page_cache = <<>> THEN 0
    ELSE 1 + Max({page_cache[i].page : i \in 1..Len(page_cache)})

LruPositions == {k * PAGE_SIZE : k \in {0, 1, NextPage} \cap PageIds}

NextLru ==
    \/ \E pos \in LruPositions : GetRecord(pos)
    \/ Unload

SpecLru == InitScan /\ [][NextLru]_vars

\* The index workload on the table of ScanPages pages: gets on the first
\* and on the last page, unloads, and an index built, searched and deleted.
EndPositions == {0, (ScanPages - 1) * PAGE_SIZE}
ScanSearches ==
    { <<"name", "a", "get">>, <<"name", "ab", "get">>, <<"name", "ab", "prefixes">> }

NextScanIndex ==
    \/ \E pos \in EndPositions : GetRecord(pos)
    \/ Unload
    \/ CreateTrie("name")
    \/ DeleteTrie("name")
    \/ \E in \in ScanSearches : Search(in[1], in[2], in[3])

SpecScanIndex == InitScan /\ [][NextScanIndex]_vars

\* CapnpTable(tablename, db_dir): the program goes on with a new handle of
\* the table, which has read nothing yet.
NewHandle ==
    /\ config_cache' = NotCached
    /\ page_cache' = <<>>
    /\ trie_indexes' = [a \in IndexNames |-> NotOpen]
    /\ last' = [op |-> "handle", n |-> 0, ok |-> TRUE]
    /\ types' = NoTypes
    /\ UNCHANGED <<disk, trie_files, log, nupd, ncreate, iter, schema_file,
                   modules, shadowed>>

\* The read workload: appends, gets and iteration over ranges.
Limits == {NoLimit} \cup 0..MaxCount

NextIter ==
    \/ Create
    \/ \E pos \in Positions : GetRecord(pos)
    \/ \E n \in 0..MaxBatch : AppendRecords(n)
    \/ \E limit \in Limits, offset \in Positions : Iterate(limit, offset)

SpecIter == Init /\ [][NextIter]_vars

\* CapnpManager.load_schema(path, as_module) called by the program, with
\* the path of the schema file of the table.
LoadSchema(name) ==
    LET l == load_schema(schema_file, modules, name) IN
    /\ schema_file' = l.file
    /\ modules' = l.modules
    /\ last' = [op |-> "load_schema", n |-> 0, ok |-> l.ok, diag |-> l.diag,
                loads |-> l.loads, name |-> name]
    /\ UNCHANGED <<disk, handle, index, log, nupd, ncreate, iter, types, shadowed>>

\* unload_schema(names) called by the program on the class cls, with None
\* or a list of names.
UnloadSchema(cls, names) ==
    \E u \in {unload_schema(cls, modules, shadowed, names)} :
    /\ modules' = u.modules
    /\ shadowed' = u.shadowed
    /\ last' = [op |-> "unload_schema", n |-> 0, ok |-> TRUE, cls |-> cls,
                named |-> IF names.kind = "none" THEN ModuleNames ELSE names.list]
    /\ UNCHANGED <<disk, handle, index, log, nupd, ncreate, iter, schema_file, types>>

\* get_record_type() or get_list_type() called by the program: a type the
\* lru_cache holds is returned; else the descriptor is read, the module is
\* loaded when the registry has none, and the type is taken from it.
GetType(ty) ==
    LET hit == types[ty] # NoModule
        c == get_config(config_cache)
        r == resolve({ty})
    IN  /\ config_cache' = IF hit THEN config_cache
                           ELSE ConfigCacheAfterGet(config_cache)
        /\ IF hit \/ c.ok THEN UseTypes({ty}) ELSE UNCHANGED schema
        /\ last' = [op |-> "get_type", n |-> 0, ok |-> hit \/ (c.ok /\ r.ok),
                    diag |-> IF ~hit /\ c.ok THEN r.diag ELSE "ok",
                    loads |-> IF ~hit /\ c.ok THEN r.loads ELSE 0, type |-> ty]
        /\ UNCHANGED <<disk, page_cache, index, log, nupd, ncreate, iter>>

\* The schema workload: tables created from schema texts of every kind and
\* deleted, modules loaded by name, on demand and unloaded, on handles old
\* and new.
NextSchema ==
    \/ \E kind \in SchemaKinds : CreateTable(kind)
    \/ Delete
    \/ CountRecords
    \/ \E name \in ModuleNames : LoadSchema(name)
    \/ \E ty \in {"record", "list"} : GetType(ty)
    \/ Unload
    \/ \E cls \in {"CapnpManager", "CapnpTable"},
          names \in {NoNames} \cup {ListNames(L) : L \in SUBSET ModuleNames} :
          UnloadSchema(cls, names)
    \/ NewHandle

SpecSchema == Init /\ [][NextSchema]_vars

\* The record type workload: a table created and created again with either
\* record type, types resolved, the count read and records appended, on
\* handles old and new.
NextTypes ==
    \/ \E rt \in RecordTypes : CreateWith("with_id", rt)
    \/ CountRecords
    \/ \E ty \in TypeNames : GetType(ty)
    \/ \E n \in 0..PAGE_SIZE : AppendRecords(n)
    \/ Unload
    \/ NewHandle

SpecTypes == Init /\ [][NextTypes]_vars

\* The pull workload: a consumer pulls records from a generator one by one,
\* or drops it, while the table is read through the cache, appended to and
\* created again.
PullLimits == {NoLimit, 1}
PullOffsets == {0, 1}

NextPull ==
    \/ Create
    \/ \E n \in {1, PAGE_SIZE} : AppendRecords(n)
    \/ \E pos \in {0, PAGE_SIZE} : GetRecord(pos)
    \/ Iterate(NoLimit, 0)
    \/ \E limit \in PullLimits, offset \in PullOffsets : IterStart(limit, offset)
    \/ IterNext
    \/ IterDrop

SpecPull == Init /\ [][NextPull]_vars

\* The index workload: tables created, filled and deleted, with index
\* builds, removals and searches between.
SearchValues == {"a", "ab", "1"}
SearchModes == Modes \cup {"like"}
\* The searches the workload makes: every mode on one attribute or the
\* other, with a value that has stored prefixes and extensions.
SearchInputs ==
    { <<"name", "a", "get">>, <<"name", "ab", "prefixes">>,
      <<"name", "a", "keys">>, <<"id", "1", "get">>,
      <<"name", "a", "like">> }

\* The index workload re-creates the table once: the second create is the one
\* that removes index files under a handle that has them open.
IndexCreates == 2

NextIndex ==
    \/ Create /\ ncreate < IndexCreates
    \/ Delete
    \/ NewHandle
    \/ \E n \in {1, PAGE_SIZE} : AppendRecords(n)
    \/ \E a \in Attrs : CreateTrie(a)
    \/ \E a \in Attrs : DeleteTrie(a)
    \/ \E in \in SearchInputs : Search(in[1], in[2], in[3])

SpecIndex == Init /\ [][NextIndex]_vars

\* The build workload: indexes built with and without a key function, on
\* attributes and on a name that is none, and searched.
BuildSearches ==
    { <<"name", "ab", "prefixes">>, <<"name", "a", "keys">>,
      <<"name", "ab", "get">>, <<"nosuch", "a", "get">> }

\* The indexes the workload builds: on an attribute with every key
\* function, and on the name that is no attribute.
Builds ==
    {<<"name", kf, ff>> : kf \in KeyFuncs, ff \in FilterFuncs}
        \cup {<<"nosuch", "str", "none">>}

\* A table a create has just made, on the handle that made it.
InitBuild ==
    /\ table_dir = TRUE
    /\ config = OkConfig(0)
    /\ pages = [k \in PageIds |-> AbsentFile]
    /\ config_cache = NotCached
    /\ page_cache = <<>>
    /\ trie_files = [a \in IndexNames |-> NoTrieFile]
    /\ trie_indexes = [a \in IndexNames |-> NotOpen]
    /\ log = <<>>
    /\ nupd = 0
    /\ ncreate = 1
    /\ iter = NoIter
    /\ schema_file = SchemaText("with_id")
    /\ modules = [NoModules EXCEPT ![TableName] = "Rec"]
    /\ types = NoTypes
    /\ shadowed = FALSE
    /\ last = [op |-> "create", n |-> 0, ok |-> TRUE, diag |-> "ok",
               loads |-> 1, kind |-> "with_id"]

NextBuild ==
    \/ \E n \in {1, PAGE_SIZE} : AppendRecords(n)
    \/ \E b \in Builds : CreateTrieWith(b[1], b[2], b[3])
    \/ \E in \in BuildSearches : Search(in[1], in[2], in[3])

SpecBuild == InitBuild /\ [][NextBuild]_vars

\* ------------------------------------------------------------------ claims

\* What get(pos) and count() return on the handle in the current state.
GetNow(pos) == get_record(page_cache, config_cache, pos)
CountNow == count_records(config_cache)
Returned(op) == last.op = op /\ last.ok

\* C1: on one handle, after a successful append to a table created on that
\* handle, count() returns the number of records appended since the create.
C1_CountIsNumberAppended ==
    Returned("append") => (CountNow.ok /\ CountNow.count = Len(log))

\* C2: after a successful append, get(i) returns for every i below count()
\* the i-th record appended since the create (as later updates left it).
C2_GetReturnsAppended ==
    Returned("append") =>
        /\ CountNow.ok
        /\ \A i \in 0..(CountNow.count - 1) :
              /\ i < Len(log)
              /\ GetNow(i).ok
              /\ GetNow(i).rec = log[i + 1]

\* C3: a get performed after an append that returned observes each appended
\* record at its ordinal (the count before the append, plus its place in the
\* batch), whatever the handle had mapped before.
C3_GetAfterAppendObserves ==
    [][(last'.op = "append" /\ last'.ok) =>
          \A c \in {CountNow.count}, j \in 1..last'.n :
             /\ GetNow(c + j - 1)'.ok
             /\ GetNow(c + j - 1)'.rec = Batch(ncreate, Len(log), last'.n)[j]
      ]_vars

\* C4: after an update that returned, every ordinal that get returned the
\* expected record for before the update is returned by get with the patch
\* applied (patched fields new, other fields and other ordinals as before),
\* and count() is as before.
C4_GetAfterUpdateObserves ==
    [][(last'.op = "update" /\ last'.ok) =>
          /\ CountNow' = CountNow
          /\ \A i \in 0..(Len(log) - 1) :
                (GetNow(i).ok /\ GetNow(i).rec = log[i + 1]) =>
                    (GetNow(i)'.ok /\ GetNow(i)'.rec = log'[i + 1])
      ]_vars

\* What a new handle (a new process) reads from the store: the records at
\* the ordinals below count(), NoRecord where get raises.
FreshView ==
    LET c == count_records(NotCached) IN
    [ok |-> c.ok,
     recs |-> IF c.ok
              THEN [i \in 1..c.count |-> get_record(<<>>, NotCached, i - 1).rec]
              ELSE <<>>]

\* C5: after a crash inside an append a new handle sees the store as it was
\* before the append, or with exactly the appended records added to it.
C5_CrashLeavesPreOrPost ==
    [][(last'.op = "crash") =>
          \A pre \in {FreshView}, batch \in {Batch(ncreate, Len(log), last'.n)} :
             \/ FreshView' = pre
             \/ FreshView' = [ok |-> TRUE, recs |-> pre.recs \o batch]
      ]_vars

\* C6: at every instant a page file and config.json hold a complete content:
\* no file is ever found truncated.
C6_NoTruncatedFile ==
    /\ config.st # "empty"
    /\ \A k \in PageIds : pages[k].st # "empty"

\* The layout the descriptor count n asks for.
Layout(n) ==
    \A k \in PageIds :
        IF k < n \div PAGE_SIZE
        THEN pages[k].st = "ok" /\ Len(pages[k].recs) = PAGE_SIZE
        ELSE IF k = n \div PAGE_SIZE /\ n % PAGE_SIZE > 0
        THEN pages[k].st = "ok" /\ Len(pages[k].recs) = n % PAGE_SIZE
        ELSE pages[k].st = "absent"

\* C7: after every append or update of a table that returned, the pages below
\* count div PAGE_SIZE are full, the next one holds count mod PAGE_SIZE
\* records (absent when 0), and there is no other page.
C7_PageLayout ==
    (table_dir /\ (Returned("append") \/ Returned("update"))) =>
        (config.st = "ok" /\ Layout(config.count))

C9_CountIsDescriptorCount ==
    config.st = "ok" => (CountNow.ok /\ CountNow.count = config.count)

C11_DeleteRemovesAll ==
    [][(last'.op = "delete") =>
          /\ last'.ok
          /\ ~table_dir'
          /\ config' = NoConfig
          /\ \A k \in PageIds : pages'[k].st = "absent"
          /\ \A a \in IndexNames : trie_files'[a].st = "absent"
          /\ (~table_dir => UNCHANGED <<disk, index, handle>>)
      ]_vars

\* A delete was called on a directory an earlier delete had removed, with
\* its index file.
C11_Witness ==
    /\ last.op = "delete"
    /\ last.n = 0
    /\ ~table_dir
    /\ \E a \in Attrs : trie_indexes[a].st = "open" /\ ~trie_indexes[a].live

\* C12: get(pos) raises for every pos below 0 and every pos at or above
\* count(), in every state a handle can find the store in.
C12_GetOutOfRangeRejected ==
    CountNow.ok =>
        \A pos \in (0 - 1)..(MaxCount + 1) :
            (pos < 0 \/ pos >= CountNow.count) => ~GetNow(pos).ok

\* C13: for every offset and limit with offset + limit <= count(),
\* iterate(offset, limit) ends without error after yielding limit records,
\* the j-th being what get returns for ordinal offset + j - 1.
C13_IterateYieldsRange ==
    CountNow.ok =>
        \A offset \in Positions, limit \in 0..MaxCount :
            offset + limit <= CountNow.count =>
                LET r == retrieve_records(config_cache, limit, offset) IN
                /\ r.ok
                /\ Len(r.recs) = limit
                /\ \A j \in 1..limit :
                      /\ GetNow(offset + j - 1).ok
                      /\ r.recs[j] = GetNow(offset + j - 1).rec

\* C14: for every offset from 0 to count(), iterate(offset) with the limit
\* omitted ends without error after yielding count() - offset records.
C14_IterateDefaultLimit ==
    CountNow.ok =>
        \A offset \in 0..CountNow.count :
            LET r == retrieve_records(config_cache, NoLimit, offset) IN
            /\ r.ok
            /\ Len(r.recs) = CountNow.count - offset

\* What a get gives the caller: whether it returned, and the record.
Outcome(r) == [ok |-> r.ok, rec |-> r.rec]

\* C15: a get or an iterate call does not change what get(i) gives, for
\* any ordinal i.
C15_ReadsRepeatable ==
    [][(last'.op \in {"get", "iterate"}) =>
          \A i \in {0, 1, PAGE_SIZE} : Outcome(GetNow(i))' = Outcome(GetNow(i))
      ]_vars

\* What search(a, v, mode) returns on the handle in the current state.
SearchNow(a, v, mode) ==
    search_records_on(trie_indexes, page_cache, config_cache, a, v, mode)

\* recs are the records get returns for the ordinals of hits, each once.
RecordsAre(recs, hits) ==
    /\ Len(recs) = Cardinality(hits)
    /\ {recs[j] : j \in 1..Len(recs)} = {GetNow(i).rec : i \in hits}

\* C16: after a create_trie(a) without key_fn that returned, search(a, s, exact) returns
\* the records at the ordinals i below count() with str(records[i].a) = s.
C16_ExactSearch ==
    (last.op = "create_trie" /\ last.ok /\ last.key_func = "str" /\ CountNow.ok) =>
        \A s \in SearchValues :
            LET r == SearchNow(last.attr, s, "get") IN
            /\ r.ok
            /\ RecordsAre(r.recs,
                  {i \in 0..(CountNow.count - 1) :
                      GetNow(i).ok /\ Key(GetNow(i).rec, last.attr) = s})

\* C17: a search in mode prefixes that returns gives the records at the
\* ordinals the index file stores under a key that is a prefix of the value.
C17_PrefixesSearch ==
    \A a \in Attrs, s \in SearchValues :
        LET r == SearchNow(a, s, "prefixes") IN
        (trie_files[a].st = "ok" /\ r.ok) =>
            RecordsAre(r.recs,
                {e[2] : e \in {x \in trie_files[a].entries : IsPrefix(x[1], s)}})

\* C18: a search in mode keys that returns gives the records at the
\* ordinals the index file stores under a key the value is a prefix of.
C18_KeysSearch ==
    \A a \in Attrs, s \in SearchValues :
        LET r == SearchNow(a, s, "keys") IN
        (trie_files[a].st = "ok" /\ r.ok) =>
            RecordsAre(r.recs,
                {e[2] : e \in {x \in trie_files[a].entries : IsPrefix(s, x[1])}})

\* C19: while an attribute has no index file, a search on it fails with
\* NoIndexError.
C19_SearchWithoutIndex ==
    \A a \in Attrs, s \in SearchValues, mode \in Modes :
        trie_files[a].st # "ok" => SearchNow(a, s, mode).err = "NoIndexError"

\* C20: a search with a mode other than get, prefixes and keys raises
\* ValueError, and leaves the open tries, the page cache and the files as
\* they were.
C20_UnknownModeRejected ==
    [][(last'.op = "search" /\ last'.mode \notin Modes) =>
          /\ ~last'.ok
          /\ last'.err = "ValueError"
          /\ UNCHANGED <<disk, index, handle>>
      ]_vars

\* A search with an unknown mode was made on a handle that has no trie open
\* and no page mapped, on an attribute whose index file exists.
C20_Witness ==
    /\ last.op = "search"
    /\ last.mode \notin Modes
    /\ trie_files[last.attr].st = "ok"
    /\ trie_files[last.attr].entries # {}
    /\ trie_indexes[last.attr].st = "none"
    /\ page_cache = <<>>

\* C21: when a page write of an append fails, count() is what it was before
\* the call, and get(i) returns, for every i below it, the record it
\* returned before the call.
C21_FailedAppendKeepsTable ==
    [][(last'.op = "append" /\ last'.err = "write") =>
          /\ CountNow' = CountNow
          /\ \A i \in 0..(CountNow.count - 1) :
                GetNow(i).ok => Outcome(GetNow(i))' = Outcome(GetNow(i))
      ]_vars

\* C23: after an update that returned, the page cache of the handle has no
\* entry for a page the update wrote.
C23_UpdatePurgesCache ==
    [][(last'.op = "update" /\ last'.ok) =>
          \A k \in last'.written : CacheIndex(page_cache', k) = 0
      ]_vars

\* C24: an append that returns writes config.json once, after all its page
\* writes, and the count it writes is the count the descriptor held before
\* plus the number of records of the input.
C24_DescriptorWrittenLast ==
    [][(last'.op = "append" /\ last'.ok) =>
          LET t == last'.trace IN
          /\ Cardinality({i \in 1..Len(t) : t[i].file = "config"}) = 1
          /\ t[Len(t)].file = "config"
          /\ t[Len(t)].count = config.count + last'.n
          /\ config' = OkConfig(t[Len(t)].count)
      ]_vars

\* The steps of a kind an update made on page k.
StepsOn(t, op, k) == {i \in 1..Len(t) : t[i].op = op /\ t[i].page = k}

\* C28: an update patches the ordinals in ascending order; it reads and
\* writes no page without a patched ordinal, reads each affected page at
\* most once, before patching it, and writes it at most once, after its
\* patches; when it returns every affected page was read once and written
\* once; with no patch it reads and writes nothing.
C28_UpdateTouchesPagesOnce ==
    [][(last'.op = "update") =>
          LET t == last'.trace
              patches == {i \in 1..Len(t) : t[i].op = "patch"}
          IN  /\ \A i \in 1..Len(t) : t[i].page \in last'.affected
              /\ \A i, j \in patches : i < j => t[i].pos < t[j].pos
              /\ \A k \in PageIds :
                    /\ Cardinality(StepsOn(t, "read", k)) <= 1
                    /\ Cardinality(StepsOn(t, "write", k)) <= 1
                    /\ \A i \in StepsOn(t, "patch", k) :
                          /\ \E r \in StepsOn(t, "read", k) : r < i
                          /\ \A w \in StepsOn(t, "write", k) : i < w
              /\ last'.ok =>
                    /\ \A k \in last'.affected :
                          /\ Cardinality(StepsOn(t, "read", k)) = 1
                          /\ Cardinality(StepsOn(t, "write", k)) = 1
                    /\ {t[i].pos : i \in patches} = last'.patched
      ]_vars

\* An update that patched ordinals of two pages has returned.
C28_Witness ==
    /\ last.op = "update"
    /\ last.ok
    /\ Cardinality(last.affected) = 2
    /\ Cardinality(last.written) = 2

\* The entries of a cache for the pages other than k, in their order.
Without(c, k) == SelectSeq(c, LAMBDA e : e.page # k)

\* C25: the order of the page cache is the order of last access. A get whose
\* page is cached makes that entry the last one, the same mapping, the other
\* entries keeping their order; a get whose page is not cached and can be
\* opened adds a new mapping as the last entry, and removes the first entry
\* (and no other) when the cache held 10.
C25_CacheIsLru ==
    [][(last'.op = "get") =>
          LET k == _get_page_path(last'.pos)
              i == CacheIndex(page_cache, k)
              n == Len(page_cache')
          IN  IF i # 0
              THEN /\ n = Len(page_cache)
                   /\ page_cache'[n] = page_cache[i]
                   /\ Without(page_cache', k) = Without(page_cache, k)
              ELSE IF PageFile(pages, k).st = "ok"
              THEN /\ n = Min(Len(page_cache) + 1, CACHE_MAX)
                   /\ page_cache'[n] = PageReader(k)
                   /\ SubSeq(page_cache', 1, n - 1) =
                         IF Len(page_cache) = CACHE_MAX THEN Tail(page_cache)
                         ELSE page_cache
              ELSE page_cache' = page_cache
      ]_vars

\* Ten pages were read, page 0 was read again, then an eleventh page: page 1
\* was evicted, page 0, older in the cache but read since, was kept.
C25_Witness ==
    /\ last.op = "get"
    /\ Len(page_cache) = CACHE_MAX
    /\ MruPage = CACHE_MAX
    /\ page_cache[CACHE_MAX - 1].page = 0
    /\ page_cache[1].page = 2

\* The ordinals of the entries of a trie a search for v in a mode matches.
Matching(entries, v, mode) ==
    {e[2] : e \in {x \in entries :
                      \/ mode = "get" /\ x[1] = v
                      \/ mode = "prefixes" /\ IsPrefix(x[1], v)
                      \/ mode = "keys" /\ IsPrefix(v, x[1])}}

\* C29: the list a search returns holds, for every ordinal the index gives
\* for the value in that mode, the record get returns for it exactly once,
\* and nothing else, however many entries of the index lead to the ordinal.
C29_SearchDeduplicates ==
    \A a \in Attrs, v \in SearchValues, mode \in Modes :
        LET r == SearchNow(a, v, mode)
            o == open_trie_on(trie_indexes, a)
            hits == Matching(o.entries, v, mode)
        IN  r.ok =>
              /\ Len(r.recs) = Cardinality(hits)
              /\ \A i \in hits :
                    Cardinality({j \in 1..Len(r.recs) : r.recs[j] = GetNow(i).rec}) = 1

\* A search returned fewer records than it found entries: some ordinal was
\* reached through several entries.
C29_Witness ==
    /\ last.op = "search"
    /\ last.ok
    /\ last.n >= 2
    /\ last.found > last.n

\* C30: on every table, create_trie on a name that is not an attribute of
\* the record type raises ValueError and leaves no index file and no open
\* trie for the name.
C30_UnknownAttributeRejected ==
    [][(last'.op = "create_trie" /\ last'.attr \notin Attrs /\ table_dir) =>
          /\ ~last'.ok
          /\ last'.err = "ValueError"
          /\ trie_files'[last'.attr].st = "absent"
          /\ trie_indexes'[last'.attr].st = "none"
      ]_vars

\* The page paths of the cache, least recently used first.
CachedPaths(c) == [i \in 1..Len(c) |-> c[i].page]

\* C26: no step of an iteration (the call, a pull, the drop of the iterator,
\* a whole iteration) and no append changes the page paths the mmap cache
\* holds or their recency order.
C26_IterateKeepsCache ==
    [][(last'.op \in {"iter", "next", "drop", "iterate", "append"}) =>
          CachedPaths(page_cache') = CachedPaths(page_cache)
      ]_vars

\* An iterator has just yielded a record of a page that the cache holds,
\* and not as its most recently used one, in a table whose last page is
\* partial (the page the next append reads).
C26_Witness ==
    /\ last.op = "next"
    /\ last.out = "record"
    /\ Len(page_cache) >= 2
    /\ page_cache[1].page = _get_page_path(iter.pos)
    /\ Len(log) % PAGE_SIZE = 1

WithId(f) == [f EXCEPT !.id = TRUE]

\* C22: a call that loads the schema file (create, load_schema, a type
\* resolved on demand) whose load fails for the missing identifier leaves
\* the file with the identifier prepended, has loaded twice and returns
\* when the second load does; with any other outcome of the first load the
\* file is as it was, one load was made and its failure is raised.
C22_SchemaSelfRepair ==
    [][(last'.op \in {"create", "load_schema", "get_type"} /\ last'.loads > 0) =>
          LET before == IF last'.op = "create" THEN SchemaText(last'.kind)
                        ELSE schema_file
          IN  IF last'.diag = "no_id"
              THEN /\ schema_file' = WithId(before)
                   /\ last'.loads = 2
                   /\ last'.ok = (capnp_load(WithId(before)) = "ok")
              ELSE /\ schema_file' = before
                   /\ last'.loads = 1
                   /\ last'.ok = (last'.diag = "ok")
      ]_vars

\* C40: every record list that append_records or update_records hands to
\* _write_page holds at most PAGE_SIZE records, so the cut of _write_page
\* to records[0:PAGE_SIZE] drops none: the page file holds the whole list.
C40_BufferWithinPage ==
    [][last'.op \in {"append", "update"} =>
          /\ \A n \in last'.buffers : n >= 1 /\ n <= PAGE_SIZE
          /\ last'.op = "append" /\ last'.ok =>
                LET ws == append_records(Batch(ncreate, Len(log), last'.n)).writes
                IN  \A i \in 1..Len(ws) :
                        (\A j \in i + 1..Len(ws) : ws[j].page # ws[i].page)
                        => pages'[ws[i].page].recs = ws[i].recs
      ]_vars

\* An append that began with a partial last page and went over the page
\* boundary has returned: its buffer started with the records read back.
C40_Witness ==
    /\ last.op = "append"
    /\ last.ok
    /\ Len(last.trace) >= 3
    /\ Len(log) >= last.n
    /\ (Len(log) - last.n) % PAGE_SIZE # 0
    /\ PAGE_SIZE \in last.buffers

\* C38: a call of update_records whose patch set holds an ordinal that is
\* not below the count of the table fails and leaves every page file as it
\* was.
C38_OutOfRangeUpdateRejected ==
    [][(last'.op = "update" /\ \E pos \in last'.patched : pos >= Len(log)) =>
          /\ ~last'.ok
          /\ pages' = pages
      ]_vars

\* C37: when create_trie_on(attr) returns on a handle that had a trie of
\* attr open, the trie the handle searches in from then on holds the pairs
\* of the file just built.
C37_RebuildReplacesOpenTrie ==
    [][(/\ last'.op = "create_trie"
        /\ last'.ok
        /\ trie_indexes[last'.attr].st = "open") =>
          /\ trie_indexes'[last'.attr].st = "open"
          /\ trie_indexes'[last'.attr].entries = trie_files'[last'.attr].entries
      ]_vars

\* C36: in the state delete() leaves, count_records(), get_record(i) for
\* every i and search_records_on with a valid mode all fail.
C36_DeletedTableNotFound ==
    (last.op = "delete" /\ last.ok) =>
        /\ ~CountNow.ok
        /\ \A pos \in Positions : ~GetNow(pos).ok
        /\ \A a \in IndexNames, v \in SearchValues, mode \in Modes :
              ~SearchNow(a, v, mode).ok

\* C34: after unload() of a handle, or unload_schema(names), every module
\* named (the module of the table name for unload(), all of them when names
\* is None) is unbound and every other name is bound as it was.
C34_UnloadRemovesNamed ==
    [][last'.op \in {"unload", "unload_schema"} =>
          \A m \in ModuleNames :
              modules'[m] = IF m \in last'.named THEN NoModule ELSE modules[m]
      ]_vars

\* C39: a type the handle holds for its table is a type of the schema file
\* of its own table directory.
C39_TypesOfOwnSchema ==
    \A ty \in TypeNames :
        (types[ty] # NoModule /\ schema_file.st = "ok") =>
            types[ty] = schema_file.record_type

\* C33: a call other than create and delete leaves the record type named
\* in config.json (and with it list_type) as it was.
C33_DescriptorFieldsFixed ==
    [][(last'.op \notin {"create", "delete"} /\ config.st = "ok") =>
          /\ config'.st = "ok"
          /\ config'.record_type = config.record_type
      ]_vars

\* C35: unload() leaves the handle with an empty mmap cache, and a
\* get_record on a page that was cached before it returns the record.
C35_UnloadThenGet ==
    [][last'.op = "unload" =>
          /\ page_cache' = <<>>
          /\ \A k \in {page_cache[i].page : i \in 1..Len(page_cache)} :
                PageFile(pages, k).st = "ok" => GetNow(k * PAGE_SIZE)'.ok
      ]_vars

\* The keys the claim gives record r under key_fn: str of the attribute
\* when it is absent, the string or the strings it returns otherwise, the
\* empty ones left out.
ClaimedKeys(r, a, kf) ==
    LET v == key_func(kf, Key(r, a))
    IN  {v.list[j] : j \in 1..Len(v.list)} \ {""}

\* C31: the index file a create_trie_on(attr, key_func, filter_func) that
\* returned has written holds the pair (k, i) exactly when i is an ordinal
\* below the count of the table, record i passes the filter and k is one of
\* the keys of record i.
C31_IndexContent ==
    (last.op = "create_trie" /\ last.ok /\ last.attr \in Attrs) =>
        {<<e[1], e[2]>> : e \in trie_files[last.attr].entries}
            = UNION {{<<k, i - 1>> : k \in ClaimedKeys(log[i], last.attr, last.key_func)} :
                        i \in {j \in 1..Len(log) : filter_func(last.filter_func, log[j])}}

\* The ordinals C32 compares get_record at: the first of every page.
PageStarts == {k * PAGE_SIZE : k \in PageIds}

\* C32: create_trie_on, delete_trie_on and search_records_on (which opens
\* the index) leave config.json and every page file as they were, and
\* count_records() and get_record(i) give after the call what they gave
\* before it.
C32_IndexOpsFrame ==
    [][last'.op \in {"create_trie", "delete_trie", "search"} =>
          /\ config' = config
          /\ pages' = pages
          /\ [ok |-> CountNow.ok, count |-> CountNow.count]'
                = [ok |-> CountNow.ok, count |-> CountNow.count]
          /\ \A i \in Positions \cup PageStarts :
                Outcome(GetNow(i))' = Outcome(GetNow(i))
      ]_vars

==============================================================================
